---- MODULE Spec2Model ----
(***************************************************************************)
(* Model of apps/steam/patch_tsukimi.py: the text patchers and the run of  *)
(* main over the skin directory.                                           *)
(*                                                                         *)
(* A text is a sequence of tokens.  A token is one character of the file   *)
(* ("nl" = \n, "cr" = \r, "sp" = space, "tab" = \t, "{", "}", ":", ";",    *)
(* ",") or a run of characters that no pattern of the program can split    *)
(* (a word such as "border" or "white", a JSON string literal such as      *)
(* "\"Midnight\"").  Names that are prefixes of one another are kept as    *)
(* separate tokens ("white" "05", "border" "-right") so that the patterns' *)
(* name boundaries are decided by the patterns and not by the tokens.      *)
(***************************************************************************)
EXTENDS Integers, Sequences, FiniteSets, TLC

VARIABLES
    pc,          \* position of main: "check", "patch", "backup", "write", "report", "done", "failed"
    cur,         \* index into Targets of the file being handled
    dry_run,     \* args.dry_run of the current run
    no_backup,   \* args.no_backup of the current run
    files,       \* the directory: file name -> text, or Absent
    backups,     \* files of _tsukimi_patch_backups: sequence of [name, content, run]
    file_ops,    \* main.file_ops: staged (name, new_text) pairs of a dry run
    changed_any, \* main.changed_any
    pending,     \* the new text apply_or_stage is about to persist for Targets[cur]
    written,     \* names written by the current run, in order
    run_start,   \* the directory as it was when the current run began
    hist,        \* one record per finished run
    hPc,         \* position of the single-function drivers: "idle", "input", then the
                 \* outcome of the call ("valid", "returned", "one", "table", "once", an
                 \* exception name, ...)
    hIn,         \* input text of the function under study
    hOut,        \* what the function under study returned: a result record or a text
    hArg         \* further argument of the function under study

vars == <<pc, cur, dry_run, no_backup, files, backups, file_ops, changed_any,
          pending, written, run_start, hist, hPc, hIn, hOut, hArg>>

mainVars == <<pc, cur, dry_run, no_backup, files, backups, file_ops, changed_any,
              pending, written, run_start, hist>>

fnVars == <<hPc, hIn, hOut, hArg>>

----------------------------------------------------------------------------
(* Text primitives: str slicing, \s, (?m)^ and $, str.find.                 *)

Min(S) == CHOOSE x \in S : \A y \in S : x <= y

Max(S) == CHOOSE x \in S : \A y \in S : x >= y

\* the value of a function with a one-element domain at that element:
\* Only([x \in {v} |-> e]) is e with x bound to v, as LET x == v IN e
Only(f) == f[CHOOSE x \in DOMAIN f : TRUE]

\* the least element of a set of indices, 0 for the empty set (no match)
MinOr0(S) == IF S = {} THEN 0 ELSE Min(S)

\* the greatest element of a set of indices, 0 for the empty set
MaxOr0(S) == IF S = {} THEN 0 ELSE Max(S)

\* text[i-1:j-1] of Python, 1-based and inclusive here
Slice(s, i, j) == IF i > j THEN <<>> ELSE SubSeq(s, i, j)

From(s, i) == Slice(s, i, Len(s))

Upto(s, j) == Slice(s, 1, j)

RECURSIVE Concat(_)
Concat(ss) == IF ss = <<>> THEN <<>> ELSE Head(ss) \o Concat(Tail(ss))

\* \s of re (space, tab, newline, carriage return)
IsWs(t) == t \in {"sp", "tab", "nl", "cr"}

\* [ \t]
IsBlank(t) == t \in {"sp", "tab"}

\* the word w occurs in s at position i
HasAt(s, i, w) == i >= 1 /\ i + Len(w) - 1 <= Len(s) /\ Slice(s, i, i + Len(w) - 1) = w

\* position after a greedy \s* that starts at i
SkipWs(s, i) ==
    CHOOSE j \in i..(Len(s) + 1) :
        (j = Len(s) + 1 \/ ~IsWs(s[j])) /\ \A k \in i..(j - 1) : IsWs(s[k])

\* position after a greedy [ \t]* that starts at i
SkipBlank(s, i) ==
    CHOOSE j \in i..(Len(s) + 1) :
        (j = Len(s) + 1 \/ ~IsBlank(s[j])) /\ \A k \in i..(j - 1) : IsBlank(s[k])

\* (?m)^ : at the start of the string and after every \n
LineStart(s, i) == i = 1 \/ (i >= 2 /\ i <= Len(s) + 1 /\ s[i - 1] = "nl")

\* the positions of (?m)^ that have a character after them
LineStarts(s) == {i \in 1..Len(s) : i = 1 \/ s[i - 1] = "nl"}

\* position of the last character .* takes from i on ((?m)$ : before \n or at the end)
LineEnd(s, i) ==
    CHOOSE j \in (i - 1)..Len(s) :
        (j = Len(s) \/ s[j + 1] = "nl") /\ \A k \in i..j : s[k] # "nl"

\* first index >= i of token t, 0 when there is none (str.find)
FindTok(s, i, t) == MinOr0({j \in i..Len(s) : s[j] = t})

\* first index >= i where the word w occurs, 0 when there is none
FindWord(s, i, w) == MinOr0({j \in i..Len(s) : HasAt(s, j, w)})

Contains(s, t) == \E j \in 1..Len(s) : s[j] = t

\* _detect_newline
DetectNewline(text) ==
    IF \E j \in 1..(Len(text) - 1) : text[j] = "cr" /\ text[j + 1] = "nl"
    THEN <<"cr", "nl">> ELSE <<"nl">>

\* str.endswith(("\n", "\r\n"))
EndsWithNewline(s) == Len(s) >= 1 /\ s[Len(s)] = "nl"

\* str.rstrip()
RStrip(s) == Upto(s, MaxOr0({j \in 1..Len(s) : ~IsWs(s[j])}))

----------------------------------------------------------------------------
(* _ensure_selector_properties                                             *)

Spaces4 == <<"sp", "sp", "sp", "sp">>

\* a match of  ^(\s*SEL\s*\{)  at i: the index of "{", else 0
SelectorHeadAt(text, i, selector) ==
    IF ~LineStart(text, i) THEN 0
    ELSE Only([j \in {SkipWs(text, i)} |->
         IF ~HasAt(text, j, selector) THEN 0
         ELSE Only([k \in {SkipWs(text, j + Len(selector))} |->
              IF k <= Len(text) /\ text[k] = "{" THEN k ELSE 0])])

\* a match of  (^\s*\}\s*)  at p: the index of its last character, else 0
BlockCloseAt(text, p) ==
    IF ~LineStart(text, p) THEN 0
    ELSE Only([q \in {SkipWs(text, p)} |->
         IF q <= Len(text) /\ text[q] = "}" THEN SkipWs(text, q + 1) - 1 ELSE 0])

\* re.search of  (?sm)^(\s*SEL\s*\{)(.*?)(^\s*\}\s*) : [start, brace, close, end]
\* (start of the match, index of "{", start of group 3, end of the match); start = 0: no match
SelectorBlock(text, selector) ==
    Only([closes \in {{p \in LineStarts(text) : BlockCloseAt(text, p) # 0}} |->
    Only([i \in {MinOr0({i \in LineStarts(text) :
                    Only([k \in {SelectorHeadAt(text, i, selector)} |->
                         k # 0 /\ \E p \in closes : p > k])})} |->
    IF i = 0 THEN [start |-> 0, brace |-> 0, close |-> 0, end |-> 0]
    ELSE Only([k \in {SelectorHeadAt(text, i, selector)} |->
         Only([p \in {Min({q \in closes : q > k})} |->
         [start |-> i, brace |-> k, close |-> p, end |-> BlockCloseAt(text, p)]])])])])

\* a match of  (?m)^(\s*PROP\s*:)\s*[^;]*;.*$  at i: the index of its last character, else 0
PropLineAt(body, i, prop) ==
    IF ~LineStart(body, i) THEN 0
    ELSE Only([j \in {SkipWs(body, i)} |->
         IF ~HasAt(body, j, prop) THEN 0
         ELSE Only([k \in {SkipWs(body, j + Len(prop))} |->
              IF ~(k <= Len(body) /\ body[k] = ":") THEN 0
              ELSE Only([sc \in {FindTok(body, k + 1, ";")} |->
                   IF sc = 0 THEN 0 ELSE LineEnd(body, sc + 1)])])])

\* one iteration of the loop over properties: [body, changed]
EnsureOneProperty(acc, prop, value, nl) ==
    Only([desired_line \in {Spaces4 \o prop \o <<":", "sp">> \o value \o <<";">>} |->
    Only([i \in {MinOr0({i \in LineStarts(acc.body) : PropLineAt(acc.body, i, prop) # 0})} |->
    IF i # 0
    THEN [body |-> Upto(acc.body, i - 1) \o desired_line
                       \o From(acc.body, PropLineAt(acc.body, i, prop) + 1),
          changed |-> TRUE]
    ELSE [body |-> (IF EndsWithNewline(acc.body) THEN acc.body ELSE acc.body \o nl)
                       \o desired_line \o nl,
          changed |-> TRUE]])])

RECURSIVE EnsureProperties(_, _, _)
EnsureProperties(acc, properties, nl) ==
    IF properties = <<>> THEN acc
    ELSE Only([next \in {EnsureOneProperty(acc, Head(properties).prop, Head(properties).value, nl)} |->
               EnsureProperties(next, Tail(properties), nl)])

\* _ensure_selector_properties(text, selector=, properties=) : [text, changed]
EnsureSelectorProperties(text, selector, properties) ==
    Only([m \in {SelectorBlock(text, selector)} |->
    IF m.start = 0 THEN [text |-> text, changed |-> FALSE]
    ELSE Only([r \in {EnsureProperties([body |-> Slice(text, m.brace + 1, m.close - 1),
                                changed |-> FALSE],
                               properties, DetectNewline(text))} |->
         IF ~r.changed THEN [text |-> text, changed |-> FALSE]
         ELSE [text |-> Upto(text, m.start - 1) \o Slice(text, m.start, m.brace)
                            \o r.body \o Slice(text, m.close, m.end)
                            \o From(text, m.end + 1),
               changed |-> TRUE]])])

\* the properties main passes for .friendlist and .chatDialogs
FriendlistProperties ==
    << [prop |-> <<"box-sizing">>, value |-> <<"border-box !important">>],
       [prop |-> <<"border">>, value |-> <<"1px solid rgb(var(--frameBorder)) !important">>],
       [prop |-> <<"border", "-right">>, value |-> <<"none !important">>] >>

ChatDialogsProperties ==
    << [prop |-> <<"box-sizing">>, value |-> <<"border-box !important">>],
       [prop |-> <<"border">>, value |-> <<"1px solid rgb(var(--frameBorder)) !important">>],
       [prop |-> <<"border", "-left">>, value |-> <<"none !important">>] >>

----------------------------------------------------------------------------
(* The colour table and _with_spaced_commas                                *)

\* TSUKIMI_RGB, in the order of the dict literal: the name after "--" and the value
TSUKIMI_RGB ==
    << [var |-> <<"focus">>,          value |-> <<"205", ",", "177", ",", "149">>],
       [var |-> <<"clientBG">>,       value |-> <<"13", ",", "14", ",", "18">>],
       [var |-> <<"header_dark">>,    value |-> <<"13", ",", "14", ",", "18">>],
       [var |-> <<"online">>,         value |-> <<"138", ",", "159", ",", "186">>],
       [var |-> <<"ingame">>,         value |-> <<"138", ",", "154", ",", "128">>],
       [var |-> <<"offline">>,        value |-> <<"184", ",", "179", ",", "170">>],
       [var |-> <<"golden">>,         value |-> <<"229", ",", "213", ",", "184">>],
       [var |-> <<"textentry">>,      value |-> <<"13", ",", "14", ",", "18">>],
       [var |-> <<"frameBorder">>,    value |-> <<"37", ",", "42", ",", "54">>],
       [var |-> <<"bgGameList">>,     value |-> <<"10", ",", "11", ",", "15">>],
       [var |-> <<"white", "03">>,    value |-> <<"240", ",", "235", ",", "229", ",", "0.03">>],
       [var |-> <<"white", "05">>,    value |-> <<"240", ",", "235", ",", "229", ",", "0.05">>],
       [var |-> <<"white", "08">>,    value |-> <<"240", ",", "235", ",", "229", ",", "0.08">>],
       [var |-> <<"white", "10">>,    value |-> <<"240", ",", "235", ",", "229", ",", "0.10">>],
       [var |-> <<"white", "12">>,    value |-> <<"240", ",", "235", ",", "229", ",", "0.12">>],
       [var |-> <<"white", "20">>,    value |-> <<"240", ",", "235", ",", "229", ",", "0.20">>],
       [var |-> <<"white", "24">>,    value |-> <<"240", ",", "235", ",", "229", ",", "0.24">>],
       [var |-> <<"white", "25">>,    value |-> <<"240", ",", "235", ",", "229", ",", "0.25">>],
       [var |-> <<"white", "35">>,    value |-> <<"240", ",", "235", ",", "229", ",", "0.35">>],
       [var |-> <<"white", "45">>,    value |-> <<"240", ",", "235", ",", "229", ",", "0.45">>],
       [var |-> <<"white", "50">>,    value |-> <<"240", ",", "235", ",", "229", ",", "0.50">>],
       [var |-> <<"white", "75">>,    value |-> <<"240", ",", "235", ",", "229", ",", "0.75">>],
       [var |-> <<"white">>,          value |-> <<"240", ",", "235", ",", "229">>] >>

TSUKIMI_WHITE05_ON_BG_GAMELIST == <<"15", ",", "16", ",", "21">>

TSUKIMI_COMMENT == "Tsukimi-inspired palette"

\* str.strip() of one part
Strip(s) ==
    Only([S \in {{j \in 1..Len(s) : ~IsWs(s[j])}} |->
    IF S = {} THEN <<>> ELSE Slice(s, Min(S), Max(S))])

\* _with_spaced_commas: ", ".join(part.strip() for part in rgb.split(","))
RECURSIVE WithSpacedCommas(_)
WithSpacedCommas(rgb) ==
    Only([c \in {FindTok(rgb, 1, ",")} |->
    IF c = 0 THEN Strip(rgb)
    ELSE Strip(Upto(rgb, c - 1)) \o <<",", "sp">> \o WithSpacedCommas(From(rgb, c + 1))])

tsukimi_compact == TSUKIMI_RGB

tsukimi_spaced ==
    [k \in 1..Len(TSUKIMI_RGB) |->
        [var |-> TSUKIMI_RGB[k].var, value |-> WithSpacedCommas(TSUKIMI_RGB[k].value)]]

\* css_targets[filename]
CssReplacements(filename) ==
    CASE filename = "libraryroot.custom.css" ->
             Append(tsukimi_compact, [var |-> <<"white", "05", "onbgGameList">>,
                                      value |-> TSUKIMI_WHITE05_ON_BG_GAMELIST])
      [] filename = "friends.custom.css" -> tsukimi_spaced
      [] filename = "notifications.custom.css" -> tsukimi_spaced
      [] OTHER -> tsukimi_compact

----------------------------------------------------------------------------
(* The :root block: _replace_css_vars_in_root_block and                     *)
(* _ensure_comment_before_var_in_root_block                                *)

\* a match of  (:root\s*\{)  at i: the index of "{", else 0
RootHeadAt(text, i) ==
    IF ~(i <= Len(text) /\ text[i] = ":root") THEN 0
    ELSE Only([k \in {SkipWs(text, i + 1)} |->
         IF k <= Len(text) /\ text[k] = "{" THEN k ELSE 0])

\* re.search of  (?s)(:root\s*\{)(.*?)(\n\}) : [found, s2, e2], group 2 being text[s2..e2]
RootBlock(text) ==
    Only([i \in {MinOr0({i \in 1..Len(text) :
                    Only([k \in {RootHeadAt(text, i)} |->
                         k # 0 /\ FindWord(text, k + 1, <<"nl", "}">>) # 0])})} |->
    IF i = 0 THEN [found |-> FALSE, s2 |-> 0, e2 |-> 0]
    ELSE Only([k \in {RootHeadAt(text, i)} |->
         [found |-> TRUE, s2 |-> k + 1, e2 |-> FindWord(text, k + 1, <<"nl", "}">>) - 1]])])

\* a match of  (?m)^([ \t]*--VAR\s*:\s*)([^;]*)(;)  at i: [g2, semi], group 2
\* being body[g2..semi-1] and group 3 body[semi]; g2 = 0: no match
VarDeclAt(root_body, i, var) ==
    IF ~LineStart(root_body, i) THEN [g2 |-> 0, semi |-> 0]
    ELSE Only([j \in {SkipBlank(root_body, i)} |->
         IF ~HasAt(root_body, j, <<"--">> \o var) THEN [g2 |-> 0, semi |-> 0]
         ELSE Only([k \in {SkipWs(root_body, j + 1 + Len(var))} |->
              IF ~(k <= Len(root_body) /\ root_body[k] = ":") THEN [g2 |-> 0, semi |-> 0]
              ELSE Only([v \in {SkipWs(root_body, k + 1)} |->
                   Only([sc \in {FindTok(root_body, v, ";")} |->
                   IF sc = 0 THEN [g2 |-> 0, semi |-> 0] ELSE [g2 |-> v, semi |-> sc]])])])])

\* pattern.subn(r"\g<1>VALUE\g<3>", root_body, count=1) : [body, n]
SubstVar(root_body, var, value) ==
    Only([i \in {MinOr0({i \in LineStarts(root_body) : VarDeclAt(root_body, i, var).g2 # 0})} |->
         
    IF i = 0 THEN [body |-> root_body, n |-> 0]
    ELSE Only([m \in {VarDeclAt(root_body, i, var)} |->
         [body |-> Upto(root_body, m.g2 - 1) \o value \o From(root_body, m.semi),
          n |-> 1]])])

\* the loop over replacements.items(), after its first n iterations: [body, changed]
\* (no pattern matches in an empty body, which is then left as it is)
RECURSIVE ReplaceVars(_, _, _)
ReplaceVars(root_body, replacements, n) ==
    IF n = 0 THEN [body |-> root_body, changed |-> <<>>]
    ELSE Only([acc \in {ReplaceVars(root_body, replacements, n - 1)} |->
         IF acc.body = <<>> THEN acc
         ELSE Only([r \in {SubstVar(acc.body, replacements[n].var, replacements[n].value)} |->
              [body |-> r.body,
               changed |-> IF r.n = 1 THEN Append(acc.changed, replacements[n].var)
                           ELSE acc.changed]])])

\* _replace_css_vars_in_root_block(text, replacements) : [text, changed]
ReplaceCssVarsInRootBlock(text, replacements) ==
    Only([m \in {RootBlock(text)} |->
    IF ~m.found THEN [text |-> text, changed |-> <<>>]
    ELSE Only([r \in {ReplaceVars(Slice(text, m.s2, m.e2), replacements, Len(replacements))} |->
              
         [text |-> Upto(text, m.s2 - 1) \o r.body \o From(text, m.e2 + 1),
          changed |-> r.changed]])])

\* str.splitlines() for the terminators \n, \r\n and \r
RECURSIVE SplitLines(_)
SplitLines(s) ==
    IF s = <<>> THEN <<>>
    ELSE Only([t \in {MinOr0({j \in 1..Len(s) : s[j] \in {"nl", "cr"}})} |->
         IF t = 0 THEN <<s>>
         ELSE <<Upto(s, t - 1)>>
                  \o SplitLines(From(s, IF s[t] = "cr" /\ t < Len(s) /\ s[t + 1] = "nl"
                                        THEN t + 2 ELSE t + 1))])

\* nl.join(lines)
RECURSIVE Join(_, _)
Join(lines, nl) ==
    IF lines = <<>> THEN <<>>
    ELSE IF Len(lines) = 1 THEN lines[1]
    ELSE lines[1] \o nl \o Join(Tail(lines), nl)

\* a match of  (?m)^(?P<indent>[ \t]*)--VAR\s*:  at i: the index after the indent, else 0
VarLineAt(s, i, var) ==
    IF ~LineStart(s, i) THEN 0
    ELSE Only([j \in {SkipBlank(s, i)} |->
         IF ~HasAt(s, j, <<"--">> \o var) THEN 0
         ELSE Only([k \in {SkipWs(s, j + 1 + Len(var))} |->
              IF k <= Len(s) /\ s[k] = ":" THEN j ELSE 0])])

\* list.insert(idx, x), idx 0-based
InsertAt(lines, idx, x) == Upto(lines, idx) \o <<x>> \o From(lines, idx + 1)

\* _ensure_comment_before_var_in_root_block(text, var=, comment=) : [text, changed]
EnsureCommentBeforeVarInRootBlock(text, var, comment) ==
    Only([m \in {RootBlock(text)} |->
    IF ~m.found THEN [text |-> text, changed |-> FALSE]
    ELSE Only([root_body \in {Slice(text, m.s2, m.e2)} |->
         Only([vm \in {MinOr0({i \in LineStarts(root_body) : VarLineAt(root_body, i, var) # 0})} |->
              
         IF vm = 0 THEN [text |-> text, changed |-> FALSE]
         ELSE Only([comment_line \in {Slice(root_body, vm, VarLineAt(root_body, vm, var) - 1)
                       \o <<"/*", "sp", comment, "sp", "*/">>} |->
              Only([lines \in {SplitLines(root_body)} |->
              Only([var_line \in {MinOr0({i \in 1..Len(lines) : VarLineAt(lines[i], 1, var) # 0})} |->
                   
              IF var_line = 0 THEN [text |-> text, changed |-> FALSE]
              ELSE Only([j \in {MaxOr0({j \in 1..(var_line - 1) : Strip(lines[j]) # <<>>})} |->
                        
                   IF j # 0 /\ Contains(lines[j], TSUKIMI_COMMENT)
                   THEN [text |-> text, changed |-> FALSE]
                   ELSE Only([nl \in {DetectNewline(text)} |->
                        [text |-> Upto(text, m.s2 - 1)
                                      \o Join(InsertAt(lines, var_line - 1, comment_line), nl)
                                      \o (IF EndsWithNewline(root_body) THEN nl ELSE <<>>)
                                      \o From(text, m.e2 + 1),
                         changed |-> TRUE]])])])])])])])])

----------------------------------------------------------------------------
(* _ensure_webkit_body_bg_uses_clientbg                                    *)

\* a match of  (?m)^(\s*background:\s*)rgb\([^)]*\)\s*;.*$  at i: [g1end, end], group 1
\* being body[i..g1end]; g1end = 0: no match
BackgroundLineAt(body, i) ==
    IF ~LineStart(body, i) THEN [g1end |-> 0, end |-> 0]
    ELSE Only([j \in {SkipWs(body, i)} |->
         IF ~HasAt(body, j, <<"background", ":">>) THEN [g1end |-> 0, end |-> 0]
         ELSE Only([k \in {SkipWs(body, j + 2)} |->
              IF ~HasAt(body, k, <<"rgb", "(">>) THEN [g1end |-> 0, end |-> 0]
              ELSE Only([cp \in {FindTok(body, k + 2, ")")} |->
                   IF cp = 0 THEN [g1end |-> 0, end |-> 0]
                   ELSE Only([s \in {SkipWs(body, cp + 1)} |->
                        IF s <= Len(body) /\ body[s] = ";"
                        THEN [g1end |-> k - 1, end |-> LineEnd(body, s + 1)]
                        ELSE [g1end |-> 0, end |-> 0]])])])])

RgbVarClientBG == <<"rgb", "(", "var", "(", "--", "clientBG", ")", ")", ";">>

\* _ensure_webkit_body_bg_uses_clientbg(text) : [text, changed]
EnsureWebkitBodyBgUsesClientbg(text) ==
    Only([m \in {SelectorBlock(text, <<"body">>)} |->
    IF m.start = 0 THEN [text |-> text, changed |-> FALSE]
    ELSE Only([body \in {Slice(text, m.brace + 1, m.close - 1)} |->
         Only([i \in {MinOr0({i \in LineStarts(body) : BackgroundLineAt(body, i).g1end # 0})} |->
              
         IF i = 0 THEN [text |-> text, changed |-> FALSE]
         ELSE Only([bm \in {BackgroundLineAt(body, i)} |->
              [text |-> Upto(text, m.start - 1) \o Slice(text, m.start, m.brace)
                            \o Upto(body, i - 1)
                            \o Slice(body, i, bm.g1end) \o RgbVarClientBG
                            \o From(body, bm.end + 1)
                            \o Slice(text, m.close, m.end) \o From(text, m.end + 1),
               changed |-> TRUE]])])])])

----------------------------------------------------------------------------
(* theme.json: _tsukimi_theme_json_block, _upsert_tsukimi_variation_in_theme_json *)
(* and the json.loads check of main.  A JSON string literal is one token, *)
(* written with its quotes; an array literal of the canonical block is one *)
(* token as well (no pattern of the upsert can match inside it).           *)

\* the 24 entries of the literal block: its keys and [value, scope] arrays
TsukimiEntries ==
    <<
       [key |-> "\"--focus\"", value |-> "[\"205,177,149\", \"all\"]"],
       [key |-> "\"--clientBG\"", value |-> "[\"13,14,18\", \"all\"]"],
       [key |-> "\"--header_dark\"", value |-> "[\"13,14,18\", \"all\"]"],
       [key |-> "\"--bgGameList\"", value |-> "[\"10,11,15\", \"all\"]"],
       [key |-> "\"--white05onbgGameList\"", value |-> "[\"15,16,21\", \"all\"]"],
       [key |-> "\"--frameBorder\"", value |-> "[\"37,42,54\", \"all\"]"],
       [key |-> "\"--textentry\"", value |-> "[\"13,14,18\", \"all\"]"],
       [key |-> "\"--online\"", value |-> "[\"138,159,186\", \"all\"]"],
       [key |-> "\"--ingame\"", value |-> "[\"138,154,128\", \"all\"]"],
       [key |-> "\"--offline\"", value |-> "[\"184,179,170\", \"all\"]"],
       [key |-> "\"--golden\"", value |-> "[\"229,213,184\", \"all\"]"],
       [key |-> "\"--white03\"", value |-> "[\"240,235,229,0.03\", \"all\"]"],
       [key |-> "\"--white05\"", value |-> "[\"240,235,229,0.05\", \"all\"]"],
       [key |-> "\"--white08\"", value |-> "[\"240,235,229,0.08\", \"all\"]"],
       [key |-> "\"--white10\"", value |-> "[\"240,235,229,0.10\", \"all\"]"],
       [key |-> "\"--white12\"", value |-> "[\"240,235,229,0.12\", \"all\"]"],
       [key |-> "\"--white20\"", value |-> "[\"240,235,229,0.20\", \"all\"]"],
       [key |-> "\"--white24\"", value |-> "[\"240,235,229,0.24\", \"all\"]"],
       [key |-> "\"--white25\"", value |-> "[\"240,235,229,0.25\", \"all\"]"],
       [key |-> "\"--white35\"", value |-> "[\"240,235,229,0.35\", \"all\"]"],
       [key |-> "\"--white45\"", value |-> "[\"240,235,229,0.45\", \"all\"]"],
       [key |-> "\"--white50\"", value |-> "[\"240,235,229,0.50\", \"all\"]"],
       [key |-> "\"--white75\"", value |-> "[\"240,235,229,0.75\", \"all\"]"],
       [key |-> "\"--white\"", value |-> "[\"240,235,229\", \"all\"]"] >>

\* one line  f'{indent}    "KEY": ["VALUE", "all"],'  (the last one without the comma)
TsukimiEntryLine(indent, k) ==
    indent \o Spaces4 \o <<TsukimiEntries[k].key, ":", "sp", TsukimiEntries[k].value>>
        \o (IF k < Len(TsukimiEntries) THEN <<",">> ELSE <<>>)

\* _tsukimi_theme_json_block(indent, nl)
TsukimiThemeJsonBlock(indent, nl) ==
    Join(<<indent \o <<"\"Tsukimi\"", ":", "sp", "{">>>>
           \o [k \in 1..Len(TsukimiEntries) |-> TsukimiEntryLine(indent, k)]
           \o <<indent \o <<"}", ",">>>>,
         nl)

\* a match of  (?m)^(\s*)"KEY"\s*:\s*\{  at i: [key, brace], the indices of the key
\* and of "{"; key = 0: no match
ObjectKeyAt(raw, i, key) ==
    IF ~LineStart(raw, i) THEN [key |-> 0, brace |-> 0]
    ELSE Only([j \in {SkipWs(raw, i)} |->
         IF ~(j <= Len(raw) /\ raw[j] = key) THEN [key |-> 0, brace |-> 0]
         ELSE Only([k \in {SkipWs(raw, j + 1)} |->
              IF ~(k <= Len(raw) /\ raw[k] = ":") THEN [key |-> 0, brace |-> 0]
              ELSE Only([b \in {SkipWs(raw, k + 1)} |->
                   IF b <= Len(raw) /\ raw[b] = "{" THEN [key |-> j, brace |-> b]
                   ELSE [key |-> 0, brace |-> 0]])])])

\* re.search of that pattern: the start of the leftmost match, 0 when there is none
ObjectKeySearch(raw, key) ==
    MinOr0({i \in LineStarts(raw) : ObjectKeyAt(raw, i, key).key # 0})

\* the depth counter: the index of the "}" that brings the depth back to 0, scanning
\* from the "{" at brace_start; 0 when the loop runs off the end
MatchingBrace(raw, brace_start) ==
    MinOr0({j \in brace_start..Len(raw) :
               /\ raw[j] = "}"
               /\ Cardinality({x \in brace_start..j : raw[x] = "{"})
                      = Cardinality({x \in brace_start..j : raw[x] = "}"})})

\* the index after the entry that ends at brace_end: blanks, then one comma
AfterEntry(raw, brace_end) ==
    Only([j \in {SkipBlank(raw, brace_end + 1)} |->
    IF j <= Len(raw) /\ raw[j] = "," THEN j + 1 ELSE j])

\* a check of line 333 that lets every text through
HasVariationAlways(raw) == TRUE

\* '"Variation"' in raw
HasVariation(raw) == Contains(raw, "\"Variation\"")

\* _upsert_tsukimi_variation_in_theme_json(raw) : [text, changed, err]
UpsertTsukimiVariationInThemeJson(raw) ==
    IF ~HasVariation(raw)
    THEN [text |-> raw, changed |-> FALSE, err |-> "could not find Variation patch"]
    ELSE IF Contains(raw, "\"Tsukimi\"")
    THEN Only([start \in {ObjectKeySearch(raw, "\"Tsukimi\"")} |->
         IF start = 0 THEN [text |-> raw, changed |-> FALSE, err |-> ""]
         ELSE Only([key_m \in {ObjectKeyAt(raw, start, "\"Tsukimi\"")} |->
              Only([brace_end \in {MatchingBrace(raw, key_m.brace)} |->
              IF brace_end = 0
              THEN [text |-> raw, changed |-> FALSE, err |-> "unterminated Tsukimi object"]
              ELSE Only([new_raw \in {Upto(raw, start - 1)
                            \o TsukimiThemeJsonBlock(Slice(raw, start, key_m.key - 1),
                                                     DetectNewline(raw))
                            \o From(raw, AfterEntry(raw, brace_end))} |->
                   [text |-> new_raw, changed |-> new_raw # raw, err |-> ""]])])])])
    ELSE Only([start \in {ObjectKeySearch(raw, "\"Midnight\"")} |->
         IF start = 0
         THEN [text |-> raw, changed |-> FALSE,
               err |-> "could not find \"Midnight\" variation block"]
         ELSE Only([midnight_m \in {ObjectKeyAt(raw, start, "\"Midnight\"")} |->
              Only([brace_end \in {MatchingBrace(raw, midnight_m.brace)} |->
              IF brace_end = 0
              THEN [text |-> raw, changed |-> FALSE, err |-> "unterminated Midnight object"]
              ELSE Only([nl \in {DetectNewline(raw)} |->
                   Only([a \in {AfterEntry(raw, brace_end)} |->
                   Only([insert_at \in {IF HasAt(raw, a, nl) THEN a + Len(nl) ELSE a} |->
                   [text |-> Upto(raw, insert_at - 1)
                                 \o (IF insert_at = a THEN nl ELSE <<>>)
                                 \o TsukimiThemeJsonBlock(Slice(raw, start, midnight_m.key - 1),
                                                          nl)
                                 \o nl \o From(raw, insert_at),
                    changed |-> TRUE, err |-> ""]])])])])])])

\* the JSON string literals of the texts studied
JsonStrings ==
    {"\"Tsukimi\"", "\"Midnight\"", "\"Variation\"", "\"values\"", "\"patches\"",
     "\"default\"", "\"Other\"", "\"all\""}
        \cup {TsukimiEntries[k].key : k \in 1..Len(TsukimiEntries)}

\* the other JSON values that are one token: numbers and the block's array literals
JsonScalars ==
    {"1", "true"} \cup {TsukimiEntries[k].value : k \in 1..Len(TsukimiEntries)}

\* json.loads accepts the text: the grammar of JSON over the tokens that are not whitespace
RECURSIVE JsonValueEnd(_, _), JsonMembersEnd(_, _), JsonElementsEnd(_, _)
\* the index after the value that starts at i, 0 when there is none
JsonValueEnd(s, i) ==
    IF i > Len(s) THEN 0
    ELSE IF s[i] \in JsonStrings \cup JsonScalars THEN i + 1
    ELSE IF s[i] = "{"
         THEN IF i + 1 <= Len(s) /\ s[i + 1] = "}" THEN i + 2 ELSE JsonMembersEnd(s, i + 1)
    ELSE IF s[i] = "["
         THEN IF i + 1 <= Len(s) /\ s[i + 1] = "]" THEN i + 2 ELSE JsonElementsEnd(s, i + 1)
    ELSE 0

\* the index after the "}" of the object whose members start at i, 0 when malformed
JsonMembersEnd(s, i) ==
    IF ~(i + 1 <= Len(s) /\ s[i] \in JsonStrings /\ s[i + 1] = ":") THEN 0
    ELSE Only([v \in {JsonValueEnd(s, i + 2)} |->
         IF v = 0 \/ v > Len(s) THEN 0
         ELSE IF s[v] = "}" THEN v + 1
         ELSE IF s[v] = "," THEN JsonMembersEnd(s, v + 1)
         ELSE 0])

\* the index after the "]" of the array whose elements start at i, 0 when malformed
JsonElementsEnd(s, i) ==
    Only([v \in {JsonValueEnd(s, i)} |->
    IF v = 0 \/ v > Len(s) THEN 0
    ELSE IF s[v] = "]" THEN v + 1
    ELSE IF s[v] = "," THEN JsonElementsEnd(s, v + 1)
    ELSE 0])

NotWs(t) == ~IsWs(t)

\* json.loads(raw) returns (does not raise)
JsonLoads(raw) ==
    Only([s \in {SelectSeq(raw, NotWs)} |-> s # <<>> /\ JsonValueEnd(s, 1) = Len(s) + 1])

----------------------------------------------------------------------------
(* custom.css: the snippet step of main                                    *)

\* CUSTOM_CSS_SNIPPET
CUSTOM_CSS_SNIPPET ==
    <<"/*", "sp", "Tsukimi (dark)", ":", "nl", "nl">> \o
    <<"--", "focus", ":", "sp", "205", ",", "sp", "177", ",", "sp", "149", ";", "nl">> \o
    <<"--", "clientBG", ":", "sp", "13", ",", "sp", "14", ",", "sp", "18", ";", "nl">> \o
    <<"--", "header_dark", ":", "sp", "13", ",", "sp", "14", ",", "sp", "18", ";", "nl">> \o
    <<"--", "bgGameList", ":", "sp", "10", ",", "sp", "11", ",", "sp", "15", ";", "nl">> \o
    <<"--", "frameBorder", ":", "sp", "37", ",", "sp", "42", ",", "sp", "54", ";", "nl">> \o
    <<"--", "textentry", ":", "sp", "13", ",", "sp", "14", ",", "sp", "18", ";", "nl">> \o
    <<"--", "white", "05", "onbgGameList", ":", "sp", "15", ",", "sp", "16", ",", "sp", "21", ";", "nl">> \o
    <<"--", "white", ":", "sp", "240", ",", "sp", "235", ",", "sp", "229", ";", "nl">> \o
    <<"--", "white", "45", ":", "sp", "240", ",", "sp", "235", ",", "sp", "229", ",", "sp", "0.45", ";", "nl">> \o
    <<"nl", "*/", "nl">>

Sentinel == "Tsukimi (dark)"

\* marker = "/* Metro White:"
Marker == <<"/*", "sp", "Metro White", ":">>

\* the snippet step without the test for the sentinel
PatchCustomTextEveryTime(custom_text) ==
    Only([idx \in {FindWord(custom_text, 1, Marker)} |->
    Only([nl \in {DetectNewline(custom_text)} |->
    IF idx = 0
    THEN RStrip(custom_text) \o nl \o nl \o CUSTOM_CSS_SNIPPET \o nl
    ELSE Upto(custom_text, idx - 1) \o CUSTOM_CSS_SNIPPET \o nl \o From(custom_text, idx)])])

\* lines 529-538 of main: the text apply_or_stage gets, or the text itself when
\* there is nothing to do
PatchCustomText(custom_text) ==
    IF Contains(custom_text, Sentinel) THEN custom_text
    ELSE Only([idx \in {FindWord(custom_text, 1, Marker)} |->
         Only([nl \in {DetectNewline(custom_text)} |->
         IF idx = 0
         THEN RStrip(custom_text) \o nl \o nl \o CUSTOM_CSS_SNIPPET \o nl
         ELSE Upto(custom_text, idx - 1) \o CUSTOM_CSS_SNIPPET \o nl
                  \o From(custom_text, idx)])])

----------------------------------------------------------------------------
(* The directories the runs start from                                     *)

\* a file that does not exist
Absent == <<"<absent>">>

\* the five files main requires (the list given to _iter_files)
Expected ==
    <<"libraryroot.custom.css", "friends.custom.css", "notifications.custom.css",
      "webkit.css", "theme.json">>

\* the order in which main handles the files: css_targets, theme.json, custom.css
Targets == Expected \o <<"custom.css">>

NumTargets == Len(Targets)

\* the number of consecutive runs of the tool on one directory
MaxRuns == 2

LF == <<"nl">>

CRLF == <<"cr", "nl">>

\* a declaration line  "  --NAME: VALUE;"
Decl(name, value, nl) == <<"sp", "sp", "--">> \o name \o <<":", "sp">> \o value \o <<";">> \o nl

\* a stylesheet with a :root block that defines --focus, --white05 and --white
CssRoot(nl) ==
    <<":root", "sp", "{">> \o nl
        \o Decl(<<"focus">>, <<"1", ",", "2", ",", "3">>, nl)
        \o Decl(<<"white", "05">>, <<"1", ",", "2", ",", "3", ",", "0.5">>, nl)
        \o Decl(<<"white">>, <<"9", ",", "9", ",", "9">>, nl)
        \o <<"}">> \o nl

\* a stylesheet without a :root block
CssNoRoot == <<"a", "sp", "{", "nl", "sp", "sp", "color", ":", "sp", "x", ";", "nl", "}", "nl">>

FriendlistEmpty == <<".friendlist", "sp", "{", "nl", "}", "nl">>

ChatDialogsTabbed ==
    <<".chatDialogs", "sp", "{", "nl", "tab", "border", ":", "sp", "0", ";", "nl", "}", "nl">>

BodyBlock ==
    <<"body", "sp", "{", "nl", "sp", "sp", "background", ":", "sp", "rgb", "(", "1", ")", ";",
      "nl", "}", "nl">>

\* the rule blocks friends.custom.css may hold after its :root block
FriendsBlocks == {FriendlistEmpty, ChatDialogsTabbed}

\* the four stylesheets, each with a :root block (notifications with CRLF line ends)
CssWithRoot(name, blocks) ==
    CASE name = "libraryroot.custom.css" -> CssRoot(LF)
      [] name = "friends.custom.css" -> CssRoot(LF) \o blocks
      [] name = "notifications.custom.css" -> CssRoot(CRLF)
      [] OTHER -> CssRoot(LF) \o BodyBlock

\* the same stylesheets without their :root block
CssWithoutRoot(name, blocks) ==
    CASE name = "friends.custom.css" -> blocks
      [] name = "webkit.css" -> BodyBlock
      [] OTHER -> CssNoRoot

\* a member  '    "KEY": {' nl '      "--focus": 1' nl '    }'  of the Variation object
ThemeMember(key) ==
    Spaces4 \o <<key, ":", "sp", "{", "nl">> \o Spaces4 \o <<"sp", "sp", "\"--focus\"", ":", "sp", "1", "nl">>
        \o Spaces4 \o <<"}">>

\* '{' nl '  "Variation": {' nl MEMBERS nl '  }' nl '}' nl
ThemeDoc(members) ==
    <<"{", "nl", "sp", "sp", "\"Variation\"", ":", "sp", "{", "nl">> \o members
        \o <<"nl", "sp", "sp", "}", "nl", "}", "nl">>

ThemeMidnightThenOther ==
    ThemeDoc(ThemeMember("\"Midnight\"") \o <<",", "nl">> \o ThemeMember("\"Other\""))

ThemeMidnightLast == ThemeDoc(ThemeMember("\"Midnight\""))

ThemeNoMidnight == ThemeDoc(ThemeMember("\"Other\""))

ThemeNoVariation == <<"{", "nl", "sp", "sp", "\"patches\"", ":", "sp", "{", "}", "nl", "}", "nl">>

ThemeMalformed == <<"{", "nl", "sp", "sp", "\"Variation\"", ":", "sp", "{", "nl">>

CustomWithMarker ==
    <<"a", "sp", "{", "}", "nl">> \o Marker \o <<"sp", "x", "sp", "*/", "nl">>

CustomPlain == <<"a", "sp", "{", "}", "nl", "nl">>

\* theme.json and custom.css: every custom.css with the theme files main gets past,
\* one custom.css with those it fails on
ThemeAndCustom ==
    ({ThemeMidnightThenOther, ThemeMidnightLast} \X {Absent, CustomWithMarker, CustomPlain})
        \cup ({ThemeNoMidnight, ThemeNoVariation, ThemeMalformed} \X {CustomPlain})

\* the directories with all five expected files; noRoot is the index in Expected of
\* the stylesheet that has no :root block (0: each of them has one)
FullDirectories ==
    {[n \in {Targets[k] : k \in 1..Len(Targets)} |->
         CASE n = "theme.json" -> tc[1]
           [] n = "custom.css" -> tc[2]
           [] OTHER -> IF noRoot # 0 /\ n = Expected[noRoot]
                       THEN CssWithoutRoot(n, blocks) ELSE CssWithRoot(n, blocks)] :
       noRoot \in 0..4, blocks \in FriendsBlocks, tc \in ThemeAndCustom}

\* the same directories, and those with one expected file missing
Directories ==
    FullDirectories
        \cup {[d EXCEPT ![Expected[k]] = Absent] : d \in FullDirectories, k \in 1..Len(Expected)}

----------------------------------------------------------------------------
(* main: one run over the skin directory, file by file                     *)

\* an existence check that forgets theme.json
MissingExpectedCssOnly(dir) == {k \in 1..4 : dir[Expected[k]] = Absent}

\* _must_exist over expected: the files whose absence raises FileNotFoundError
MissingExpected(dir) == {k \in 1..Len(Expected) : dir[Expected[k]] = Absent}

\* the body of the loop over css_targets up to the comparison with text
PatchedCss(filename, text) ==
    Only([updated1 \in {ReplaceCssVarsInRootBlock(text, CssReplacements(filename)).text} |->
    Only([updated2 \in {EnsureCommentBeforeVarInRootBlock(updated1, <<"focus">>, TSUKIMI_COMMENT).text} |->
         
    CASE filename = "webkit.css" -> EnsureWebkitBodyBgUsesClientbg(updated2).text
      [] filename = "friends.custom.css" ->
             Only([updated3 \in {EnsureSelectorProperties(updated2, <<".friendlist">>,
                                           FriendlistProperties).text} |->
                  EnsureSelectorProperties(updated3, <<".chatDialogs">>,
                                           ChatDialogsProperties).text])
      [] OTHER -> updated2])])

\* the run that is going on, or that has just ended (1-based)
RunNo == IF pc \in {"done", "failed"} THEN Len(hist) ELSE Len(hist) + 1

\* the names of the staged operations, as the dry-run summary lists them
StagedNames(ops) == {ops[k].name : k \in 1..Len(ops)}

\* what a run leaves behind when it ends: its exit status, the exception that ended
\* it, the summary it printed and the files it reported, staged and wrote
RunRecord(exit, err, detail, message, reported) ==
    [dry |-> dry_run, no_backup |-> no_backup, exit |-> exit, err |-> err,
     detail |-> detail, message |-> message, reported |-> reported,
     staged |-> file_ops, written |-> written, before |-> run_start, after |-> files]

\* an exception handler that puts the directory back as the run found it
RaiseAndRollBack(err, detail) ==
    /\ pc' = "failed"
    /\ files' = run_start
    /\ hist' = Append(hist, [RunRecord(1, err, detail, "", {}) EXCEPT !.after = run_start])
    /\ UNCHANGED <<cur, dry_run, no_backup, backups, file_ops, changed_any,
                   pending, written, run_start>>

\* an uncaught exception: the interpreter prints the traceback and exits with status 1
Raise(err, detail) ==
    /\ pc' = "failed"
    /\ hist' = Append(hist, RunRecord(1, err, detail, "", {}))
    /\ UNCHANGED <<cur, dry_run, no_backup, files, backups, file_ops, changed_any,
                   pending, written, run_start>>

\* the move to the next file, or to the report after the last one
Advance ==
    /\ cur' = cur + 1
    /\ pc' = IF cur = NumTargets THEN "report" ELSE "patch"

\* nothing to do for Targets[cur]
SkipFile ==
    /\ Advance
    /\ UNCHANGED <<dry_run, no_backup, files, backups, file_ops, changed_any,
                   pending, written, run_start, hist>>

\* an apply_or_stage that does not look at args.dry_run
ApplyOrStageAlwaysWrites(new_text) ==
    /\ changed_any' = TRUE
    /\ pending' = new_text
    /\ pc' = IF no_backup THEN "write" ELSE "backup"
    /\ UNCHANGED <<file_ops, cur, dry_run, no_backup, files, backups, written, run_start,
                   hist>>

\* changed_any = True; apply_or_stage(path, new_text) up to its first file operation
ApplyOrStage(new_text) ==
    /\ changed_any' = TRUE
    /\ IF dry_run
       THEN /\ file_ops' = Append(file_ops, [name |-> Targets[cur], text |-> new_text])
            /\ Advance
            /\ UNCHANGED pending
       ELSE /\ pending' = new_text
            /\ pc' = IF no_backup THEN "write" ELSE "backup"
            /\ UNCHANGED <<file_ops, cur>>
    /\ UNCHANGED <<dry_run, no_backup, files, backups, written, run_start, hist>>

\* for p in expected: _must_exist(p)
CheckExpected ==
    /\ pc = "check"
    /\ IF MissingExpected(files) # {}
       THEN Raise("FileNotFoundError", "Missing expected file")
       ELSE /\ pc' = "patch"
            /\ UNCHANGED <<cur, dry_run, no_backup, files, backups, file_ops,
                           changed_any, pending, written, run_start, hist>>
    /\ UNCHANGED fnVars

\* one iteration of the loop over css_targets
PatchCssFile ==
    /\ pc = "patch"
    /\ cur <= 4
    /\ IF files[Targets[cur]] = Absent THEN Raise("FileNotFoundError", "read_text")
       ELSE \E updated \in {PatchedCss(Targets[cur], files[Targets[cur]])} :
                IF updated # files[Targets[cur]] THEN ApplyOrStage(updated) ELSE SkipFile
    /\ UNCHANGED fnVars

\* the theme.json part of main
PatchThemeJson ==
    /\ pc = "patch"
    /\ cur = 5
    /\ IF files["theme.json"] = Absent THEN Raise("FileNotFoundError", "read_text")
       ELSE IF ~JsonLoads(files["theme.json"]) THEN Raise("JSONDecodeError", "json.loads")
       ELSE \E r \in {UpsertTsukimiVariationInThemeJson(files["theme.json"])} :
                IF r.err # "" THEN Raise("ValueError", r.err)
                ELSE IF r.changed THEN ApplyOrStage(r.text) ELSE SkipFile
    /\ UNCHANGED fnVars

\* the custom.css part of main
PatchCustomCss ==
    /\ pc = "patch"
    /\ cur = 6
    /\ IF files["custom.css"] = Absent THEN SkipFile
       ELSE \E updated \in {PatchCustomText(files["custom.css"])} :
                IF updated # files["custom.css"] THEN ApplyOrStage(updated) ELSE SkipFile
    /\ UNCHANGED fnVars

\* a backup that copies the new text instead of the file on disk
BackupFileOfNewText ==
    /\ pc = "backup"
    /\ backups' = Append(backups, [name |-> Targets[cur], content |-> pending,
                                   run |-> RunNo])
    /\ pc' = "write"
    /\ UNCHANGED <<cur, dry_run, no_backup, files, file_ops, changed_any, pending,
                   written, run_start, hist>>
    /\ UNCHANGED fnVars

\* _backup_file(path, backup_dir) inside apply_or_stage
BackupFile ==
    /\ pc = "backup"
    /\ backups' = Append(backups, [name |-> Targets[cur], content |-> files[Targets[cur]],
                                   run |-> RunNo])
    /\ pc' = "write"
    /\ UNCHANGED <<cur, dry_run, no_backup, files, file_ops, changed_any, pending,
                   written, run_start, hist>>
    /\ UNCHANGED fnVars

\* _write_text(path, new_text) inside apply_or_stage
WriteText ==
    /\ pc = "write"
    /\ files' = [files EXCEPT ![Targets[cur]] = pending]
    /\ written' = Append(written, Targets[cur])
    /\ Advance
    /\ UNCHANGED <<dry_run, no_backup, backups, file_ops, changed_any, pending, run_start,
                   hist>>
    /\ UNCHANGED fnVars

\* the end of main: the summary and return 0
Report ==
    /\ pc = "report"
    /\ pc' = "done"
    /\ hist' = Append(hist,
                  IF dry_run
                  THEN RunRecord(0, "", "",
                           IF file_ops = <<>> THEN "No changes needed" ELSE "Would patch",
                           StagedNames(file_ops))
                  ELSE RunRecord(0, "", "",
                           IF ~changed_any THEN "No changes needed" ELSE "Patched", {}))
    /\ UNCHANGED <<cur, dry_run, no_backup, files, backups, file_ops, changed_any,
                   pending, written, run_start>>
    /\ UNCHANGED fnVars

\* the tool is started again on the same directory
StartRun ==
    /\ pc \in {"done", "failed"}
    /\ Len(hist) < MaxRuns
    /\ pc' = "check"
    /\ cur' = 1
    /\ dry_run' \in BOOLEAN
    /\ no_backup' \in BOOLEAN
    /\ file_ops' = <<>>
    /\ changed_any' = FALSE
    /\ pending' = <<>>
    /\ written' = <<>>
    /\ run_start' = files
    /\ UNCHANGED <<files, backups, hist>>
    /\ UNCHANGED fnVars

\* the single-function drivers are not part of a run of main
fnIdle == hPc = "idle" /\ hIn = <<>> /\ hOut = <<>> /\ hArg = <<>>

Init ==
    /\ pc = "check"
    /\ cur = 1
    /\ dry_run \in BOOLEAN
    /\ no_backup \in BOOLEAN
    /\ files \in Directories
    /\ backups = <<>>
    /\ file_ops = <<>>
    /\ changed_any = FALSE
    /\ pending = <<>>
    /\ written = <<>>
    /\ run_start = files
    /\ hist = <<>>
    /\ fnIdle

Next ==
    \/ CheckExpected
    \/ PatchCssFile
    \/ PatchThemeJson
    \/ PatchCustomCss
    \/ BackupFile
    \/ WriteText
    \/ Report
    \/ StartRun

Spec == Init /\ [][Next]_vars

----------------------------------------------------------------------------
(* Properties of the runs of main (specification Spec)                     *)

\* the set of the names in a sequence of names
NameSet(names) == {names[k] : k \in 1..Len(names)}

\* the stylesheets of a directory that have no :root block
CssWithoutRootBlock(dir) ==
    {k \in 1..4 : dir[Expected[k]] # Absent /\ ~RootBlock(dir[Expected[k]]).found}

\* the expected files a directory lacks
AbsentFiles(dir) == {n \in NameSet(Expected) : dir[n] = Absent}

\* the text holds the JSON string "Variation"
NamesVariation(theme) == \E i \in 1..Len(theme) : theme[i] = "\"Variation\""

\* the backups made by run k
BackupsOfRun(k) == {j \in 1..Len(backups) : backups[j].run = k}

\* C1: after a non-dry run that ended with exit 0, the next run (dry or not) stages
\* and writes no file, leaves every file as it was, reports that no changes are
\* needed and exits with 0.
C1_WholeRunIdempotent ==
    \A k \in 1..(Len(hist) - 1) :
        (~hist[k].dry /\ hist[k].exit = 0)
            => /\ hist[k + 1].exit = 0
               /\ hist[k + 1].staged = <<>>
               /\ hist[k + 1].written = <<>>
               /\ hist[k + 1].after = hist[k].after
               /\ hist[k + 1].message = "No changes needed"

C5_MissingFileBeforeAnyWrite ==
    /\ AbsentFiles(run_start) # {}
           => /\ pc \in {"check", "failed"}
              /\ written = <<>>
              /\ files = run_start
              /\ BackupsOfRun(RunNo) = {}
    /\ \A k \in 1..Len(hist) :
           AbsentFiles(hist[k].before) # {}
               => /\ hist[k].err = "FileNotFoundError"
                  /\ hist[k].exit # 0
                  /\ hist[k].written = <<>>
                  /\ hist[k].after = hist[k].before
                  /\ BackupsOfRun(k) = {}

\* a non-dry run failed for the absent theme.json although a stylesheet needed a patch
C5_Witness ==
    /\ pc = "failed"
    /\ ~dry_run
    /\ files["theme.json"] = Absent
    /\ files["libraryroot.custom.css"] # Absent
    /\ PatchedCss("libraryroot.custom.css", files["libraryroot.custom.css"])
           # files["libraryroot.custom.css"]
    /\ hist[Len(hist)].err = "FileNotFoundError"

\* no step of a dry run writes a file or makes a backup
DryRunWritesNothing == dry_run => (files = run_start /\ BackupsOfRun(RunNo) = {})

\* C6 as stated: a dry run writes nothing, and the files it reports are the files a
\* non-dry run on the same directory overwrites.
C6_DryRunReportsWhatARunWrites ==
    /\ DryRunWritesNothing
    /\ \A k \in 1..(Len(hist) - 1) :
           (hist[k].dry /\ ~hist[k + 1].dry)
               => hist[k].reported = NameSet(hist[k + 1].written)

\* C6, amended: a dry run writes nothing; when it ends with exit 0, the files it
\* reports are the files a non-dry run on the same directory overwrites, with the
\* staged texts.
C6_CompletedDryRunReportsWhatARunWrites ==
    /\ DryRunWritesNothing
    /\ \A k \in 1..(Len(hist) - 1) :
           (hist[k].dry /\ hist[k].exit = 0 /\ ~hist[k + 1].dry)
               => /\ hist[k].reported = NameSet(hist[k + 1].written)
                  /\ \A j \in 1..Len(hist[k].staged) :
                         hist[k + 1].after[hist[k].staged[j].name] = hist[k].staged[j].text

\* a dry run reported files and the non-dry run after it has ended
C6_Witness ==
    \E k \in 1..(Len(hist) - 1) :
        /\ hist[k].dry
        /\ hist[k].exit = 0
        /\ Cardinality(hist[k].reported) >= 2
        /\ ~hist[k + 1].dry
        /\ hist[k + 1].written # <<>>

\* C7: with backups on, a file is overwritten only right after a backup of the same
\* run has copied the content it had; a backup is made only for a file whose new text
\* differs; every write changes the file; with --no-backup no backup is made.
C7_BackupBeforeOverwrite ==
    [][/\ (Len(written') > Len(written))
              => /\ ~dry_run
                 /\ written' = Append(written, Targets[cur])
                 /\ files'[Targets[cur]] # files[Targets[cur]]
                 /\ \A n \in DOMAIN files : n # Targets[cur] => files'[n] = files[n]
                 /\ ~no_backup
                        => /\ backups # <<>>
                           /\ backups[Len(backups)] =
                                  [name |-> Targets[cur], content |-> files[Targets[cur]],
                                   run |-> RunNo]
       /\ (files' # files) => (Len(written') > Len(written))
       /\ (backups' # backups)
              => /\ ~dry_run /\ ~no_backup
                 /\ backups' = Append(backups, [name |-> Targets[cur],
                                                content |-> files[Targets[cur]],
                                                run |-> RunNo])
                 /\ pending # files[Targets[cur]]
                 /\ files' = files
      ]_vars

\* a run with backups has overwritten two files, each one after its backup
C7_Witness ==
    /\ ~dry_run /\ ~no_backup
    /\ Len(written) >= 2
    /\ \A k \in 1..Len(written) :
           \E j \in BackupsOfRun(RunNo) :
               backups[j].name = written[k] /\ backups[j].content = run_start[written[k]]

\* the place of a file in the processing order
TargetIndex(n) == CHOOSE k \in 1..NumTargets : Targets[k] = n

\* the names are in processing order, none of them twice
InTargetOrder(names) ==
    \A i, j \in 1..Len(names) : i < j => TargetIndex(names[i]) < TargetIndex(names[j])

\* the stylesheets of a directory whose patched content differs from their content
CssThatDiffer(dir) == {k \in 1..4 : PatchedCss(Targets[k], dir[Targets[k]]) # dir[Targets[k]]}

\* the run that has just ended was not a dry run and ended with the exception that
\* json.loads or the upsert raised on theme.json
FailedOnThemeJson ==
    /\ pc = "failed"
    /\ ~hist[Len(hist)].dry
    /\ hist[Len(hist)].err \in {"JSONDecodeError", "ValueError"}

\* C11: a run that is not a dry run writes files in the order libraryroot.custom.css,
\* friends.custom.css, notifications.custom.css, webkit.css, theme.json, custom.css,
\* each at most once and none after the file it is at; when it fails on theme.json,
\* exactly the stylesheets whose patched content differed have been overwritten with
\* that content and stay so, the other stylesheets, theme.json and custom.css are as
\* the run found them, and the exit status is not zero.
C11_FixedOrderNoRollback ==
    /\ InTargetOrder(written)
    /\ \A k \in 1..Len(written) : TargetIndex(written[k]) <= cur
    /\ dry_run => written = <<>>
    /\ FailedOnThemeJson
           => LET r == hist[Len(hist)] IN
              /\ r.exit # 0
              /\ files = r.after
              /\ r.written = written
              /\ NameSet(written) = {Targets[k] : k \in CssThatDiffer(r.before)}
              /\ \A k \in 1..4 :
                     r.after[Targets[k]] = PatchedCss(Targets[k], r.before[Targets[k]])
              /\ r.after["theme.json"] = r.before["theme.json"]
              /\ r.after["custom.css"] = r.before["custom.css"]

\* a run has overwritten stylesheets and then failed on a theme.json without a
\* Midnight object, with a custom.css that the run would have patched
C11_Witness ==
    /\ FailedOnThemeJson
    /\ hist[Len(hist)].detail = "could not find \"Midnight\" variation block"
    /\ Len(written) >= 2
    /\ \A k \in 1..Len(written) : files[written[k]] # run_start[written[k]]
    /\ files["custom.css"] # Absent
    /\ PatchCustomText(files["custom.css"]) # files["custom.css"]

----------------------------------------------------------------------------
(* theme.json alone: json.loads and the upsert on one text                 *)
(* (specification SpecThemeJson)                                           *)

\* main is not running while one function is applied to one text
mainIdle ==
    /\ pc = "done"
    /\ cur = 1
    /\ dry_run = FALSE
    /\ no_backup = FALSE
    /\ files = [n \in NameSet(Targets) |-> Absent]
    /\ backups = <<>>
    /\ file_ops = <<>>
    /\ changed_any = FALSE
    /\ pending = <<>>
    /\ written = <<>>
    /\ run_start = files
    /\ hist = <<>>

\* the Tsukimi object as the tool writes it, without the comma after its "}"
TsukimiMember(indent, nl) ==
    Only([block \in {TsukimiThemeJsonBlock(indent, nl)} |-> Upto(block, Len(block) - 1)])

\* one member of the Variation object, by kind
VariationMember(kind, nl) ==
    LET object(key) ==
            Spaces4 \o <<key, ":", "sp", "{">> \o nl
                \o Spaces4 \o <<"sp", "sp", "\"--focus\"", ":", "sp", "1">> \o nl
                \o Spaces4 \o <<"}">>
    IN CASE kind = "Midnight" -> object("\"Midnight\"")
         [] kind = "Other" -> object("\"Other\"")
         [] kind = "Stale" -> object("\"Tsukimi\"")
         [] kind = "Canonical" -> TsukimiMember(Spaces4, nl)
         [] OTHER -> Spaces4 \o <<"\"default\"", ":", "sp", "\"Tsukimi\"">>

\* the members separated by "," and a line break
RECURSIVE VariationMembers(_, _)
VariationMembers(kinds, nl) ==
    IF Len(kinds) = 1 THEN VariationMember(kinds[1], nl)
    ELSE VariationMember(kinds[1], nl) \o <<",">> \o nl \o VariationMembers(Tail(kinds), nl)

\* '{' nl '  "Variation": {' nl MEMBERS nl '  }' nl '}' nl
VariationDoc(kinds, nl) ==
    <<"{">> \o nl \o <<"sp", "sp", "\"Variation\"", ":", "sp", "{">> \o nl
        \o VariationMembers(kinds, nl) \o nl \o <<"sp", "sp", "}">> \o nl \o <<"}">> \o nl

MemberKinds == {"Midnight", "Other", "Stale", "Canonical", "Default"}

\* the longest member list of an input document
MaxMembers == 3

\* lists of members: no key twice
MemberLists ==
    UNION {{ks \in [1..n -> MemberKinds] :
               /\ \A i, j \in 1..n : i # j => ks[i] # ks[j]
               /\ ~({"Stale", "Canonical"} \subseteq {ks[i] : i \in 1..n})} :
           n \in 1..MaxMembers}

\* the texts given to the theme.json step
ThemeInputs ==
    {VariationDoc(ks, nl) : ks \in MemberLists, nl \in {LF, CRLF}}
        \cup {ThemeNoVariation, ThemeMalformed}

InitThemeJson ==
    /\ mainIdle
    /\ hPc = "input"
    /\ hArg = <<"theme.json">>
    /\ hIn \in ThemeInputs
    /\ hOut = <<>>

\* json.loads(raw) of main, line 520
ValidateThemeJson ==
    /\ hPc = "input"
    /\ hArg = <<"theme.json">>
    /\ hPc' = IF JsonLoads(hIn) THEN "valid" ELSE "JSONDecodeError"
    /\ UNCHANGED <<hIn, hOut, hArg>>
    /\ UNCHANGED mainVars

\* new_raw, changed = _upsert_tsukimi_variation_in_theme_json(raw)
UpsertThemeJson ==
    /\ hPc = "valid"
    /\ hArg = <<"theme.json">>
    /\ \E r \in {UpsertTsukimiVariationInThemeJson(hIn)} :
           /\ hOut' = r
           /\ hPc' = IF r.err = "" THEN "returned" ELSE "ValueError"
    /\ UNCHANGED <<hIn, hArg>>
    /\ UNCHANGED mainVars

NextThemeJson == ValidateThemeJson \/ UpsertThemeJson

SpecThemeJson == InitThemeJson /\ [][NextThemeJson]_vars

\* key is the key of a member of some object of the text
HasMember(raw, key) ==
    \E i \in 1..Len(raw) :
        raw[i] = key /\ SkipWs(raw, i + 1) <= Len(raw) /\ raw[SkipWs(raw, i + 1)] = ":"

\* the indices of the "{" of the members  key: {
ObjectMembers(raw, key) ==
    {b \in 1..Len(raw) :
        /\ raw[b] = "{"
        /\ \E i \in 1..(b - 1) :
               /\ raw[i] = key
               /\ SkipWs(raw, i + 1) < b
               /\ raw[SkipWs(raw, i + 1)] = ":"
               /\ SkipWs(raw, SkipWs(raw, i + 1) + 1) = b}

\* C2: the upsert of a text that is valid JSON and has the "Variation" key, when it
\* returns, returns valid JSON, wherever the Midnight or the Tsukimi member stands.
C2_UpsertKeepsJsonValid ==
    (hArg = <<"theme.json">> /\ hPc = "returned" /\ NamesVariation(hIn))
        => JsonLoads(hOut.text)

\* C3: for a text with the "Variation" key and a Midnight object member but no member
\* whose key is "Tsukimi", the upsert returns changed = true and the input with the
\* canonical Tsukimi object inserted right after Midnight's closing brace (after its
\* comma and line break when present), nothing else changed.
C3_InsertsAfterMidnight ==
    (/\ hArg = <<"theme.json">> /\ hPc \in {"returned", "ValueError"}
     /\ NamesVariation(hIn)
     /\ ObjectMembers(hIn, "\"Midnight\"") # {}
     /\ ~HasMember(hIn, "\"Tsukimi\""))
        => /\ hPc = "returned"
           /\ hOut.changed
           /\ LET b == Min(ObjectMembers(hIn, "\"Midnight\""))
                  nl == DetectNewline(hIn)
                  c == AfterEntry(hIn, MatchingBrace(hIn, b))
                  p == IF HasAt(hIn, c, nl) THEN c + Len(nl) ELSE c
                  n == Len(hOut.text) - Len(hIn)
              IN /\ n > 0
                 /\ Upto(hOut.text, p - 1) = Upto(hIn, p - 1)
                 /\ From(hOut.text, p + n) = From(hIn, p)
                 /\ SelectSeq(Slice(hOut.text, p, p + n - 1), NotWs)
                        = SelectSeq(TsukimiThemeJsonBlock(<<>>, LF), NotWs)

----------------------------------------------------------------------------
(* _replace_css_vars_in_root_block alone (specification SpecRootVars)      *)

\* the custom properties of the input blocks
RootVarNames == {<<"white">>, <<"white", "05">>, <<"focus">>}

\* one line of a block: "  --NAME: 7,7,7" with or without its ";"
RootLine(name, semi) ==
    <<"sp", "sp", "--">> \o name \o <<":", "sp", "7", ",", "7", ",", "7">>
        \o (IF semi THEN <<";">> ELSE <<>>)

\* the most declarations an input block holds
MaxDecls == 3

\* the lists of lines: each name at most once, each line with or without ";"
RootLineLists ==
    UNION {{ls \in [1..n -> RootVarNames \X BOOLEAN] :
               \A i, j \in 1..n : i # j => ls[i][1] # ls[j][1]} :
           n \in 2..MaxDecls}

\* ':root {' nl LINES nl '}' nl
RootDoc(ls, nl) ==
    <<":root", "sp", "{">> \o nl
        \o Join([k \in 1..Len(ls) |-> RootLine(ls[k][1], ls[k][2])], nl)
        \o nl \o <<"}">> \o nl

RootInputs == {RootDoc(ls, nl) : ls \in RootLineLists, nl \in {LF, CRLF}}

\* the table's value of a variable
TableValue(var) ==
    LET k == CHOOSE k \in 1..Len(TSUKIMI_RGB) : TSUKIMI_RGB[k].var = var
    IN TSUKIMI_RGB[k].value

InitRootVars ==
    /\ mainIdle
    /\ hPc = "input"
    /\ hArg = <<>>
    /\ hIn \in RootInputs
    /\ hOut = <<>>

\* _replace_css_vars_in_root_block(text, {var: TSUKIMI_RGB[var]})
ReplaceOneVar ==
    /\ hPc = "input"
    /\ hIn \in RootInputs
    /\ \E var \in RootVarNames :
           /\ hArg' = var
           /\ hOut' = ReplaceCssVarsInRootBlock(hIn, <<[var |-> var, value |-> TableValue(var)]>>)
    /\ hPc' = "one"
    /\ UNCHANGED hIn
    /\ UNCHANGED mainVars

\* _replace_css_vars_in_root_block(text, tsukimi_compact), as main calls it
ReplaceTableVars ==
    /\ hPc = "input"
    /\ hIn \in RootInputs
    /\ hArg' = <<"*">>
    /\ hOut' = ReplaceCssVarsInRootBlock(hIn, tsukimi_compact)
    /\ hPc' = "table"
    /\ UNCHANGED hIn
    /\ UNCHANGED mainVars

NextRootVars == ReplaceOneVar \/ ReplaceTableVars

SpecRootVars == InitRootVars /\ [][NextRootVars]_vars

\* the line starts, after blanks, with "--NAME" and then ":" : it defines NAME
DefinesVar(line, name) ==
    LET j == SkipBlank(line, 1) IN
    /\ HasAt(line, j, <<"--">> \o name)
    /\ j + 1 + Len(name) <= Len(line)
    /\ line[SkipWs(line, j + 1 + Len(name))] = ":"

\* C8: rewriting a property P of a :root block leaves every line that defines a
\* different property Q as it was, byte for byte: rewriting --white never alters the
\* line of --white05.
C8_OtherLinesKept ==
    hPc = "one"
        => LET before == SplitLines(hIn)
               after == SplitLines(hOut.text)
           IN \A i \in 1..Len(before) :
                  (\E q \in RootVarNames \ {hArg} : DefinesVar(before[i], q))
                      => \E j \in 1..Len(after) : after[j] = before[i]

----------------------------------------------------------------------------
(* _ensure_selector_properties alone (specification SpecSelector)          *)

\* the indentations of the lines of an input block
Indents == {<<"sp", "sp">>, Spaces4, <<"tab">>}

\* the properties of the lines of an input block: the listed ones and one other
LineProps == {<<"box-sizing">>, <<"border">>, <<"border", "-right">>, <<"color">>}

\* a line  INDENT PROP ": 0;"
PropLine(indent, prop) == indent \o prop \o <<":", "sp", "0", ";">>

\* the most property lines an input block holds
MaxProps == 2

\* the lists of lines of a block: no property twice
PropLineLists ==
    UNION {{ls \in [1..n -> Indents \X LineProps] :
               \A i, j \in 1..n : i # j => ls[i][2] # ls[j][2]} :
           n \in 0..MaxProps}

\* 'SELECTOR {' nl [nl] LINES '}' nl   (blank: an empty line after the "{")
BlockDoc(selector, ls, blank) ==
    selector \o <<"sp", "{", "nl">> \o (IF blank THEN <<"nl">> ELSE <<>>)
        \o Concat([k \in 1..Len(ls) |-> PropLine(ls[k][1], ls[k][2]) \o <<"nl">>])
        \o <<"}", "nl">>

\* documents with a .friendlist block, and documents without one
SelectorInputs ==
    {BlockDoc(<<".friendlist">>, ls, blank) : ls \in PropLineLists, blank \in BOOLEAN}
        \cup {BlockDoc(<<".other">>, ls, FALSE) : ls \in {l \in PropLineLists : Len(l) <= 1}}

InitSelector ==
    /\ mainIdle
    /\ hPc = "input"
    /\ hArg = <<>>
    /\ hIn \in SelectorInputs
    /\ hOut = <<>>

\* _ensure_selector_properties(text, selector=".friendlist", properties={prop: value})
EnsureOneListedProperty ==
    /\ hPc = "input"
    /\ hIn \in SelectorInputs
    /\ \E k \in 1..Len(FriendlistProperties) :
           /\ hArg' = FriendlistProperties[k].prop
           /\ hOut' = EnsureSelectorProperties(hIn, <<".friendlist">>,
                                               <<FriendlistProperties[k]>>)
    /\ hPc' = "one"
    /\ UNCHANGED hIn
    /\ UNCHANGED mainVars

\* the call of main for .friendlist, with its three properties
EnsureFriendlistProperties ==
    /\ hPc = "input"
    /\ hIn \in SelectorInputs
    /\ hArg' = <<"*">>
    /\ hOut' = EnsureSelectorProperties(hIn, <<".friendlist">>, FriendlistProperties)
    /\ hPc' = "all"
    /\ UNCHANGED hIn
    /\ UNCHANGED mainVars

NextSelector == EnsureOneListedProperty \/ EnsureFriendlistProperties

SpecSelector == InitSelector /\ [][NextSelector]_vars

\* the indices of the tokens at which a line for prop begins its name: blanks before
\* it up to the start of the line, and ":" after it
PropNameStarts(text, prop) ==
    {j \in 1..Len(text) :
        /\ HasAt(text, j, prop)
        /\ \E i \in LineStarts(text) : i <= j /\ SkipBlank(text, i) = j
        /\ j + Len(prop) <= Len(text)
        /\ text[SkipWs(text, j + Len(prop))] = ":"}

\* the text has a block for .friendlist
HasFriendlist(text) == \E j \in LineStarts(text) : HasAt(text, j, <<".friendlist">>)

\* C9: where the block has a line for the listed property, the output differs from
\* the input only between the ":" and the ";" of that line (indentation, the line
\* break and the blank lines before it, every other line kept); a listed property
\* without a line is added as one line at the end of the block interior; without the
\* selector block the text is returned unchanged with changed = false.
C9_OnlyTheValueChanges ==
    hPc = "one"
        => LET out == hOut.text
               names == PropNameStarts(hIn, hArg)
           IN IF ~HasFriendlist(hIn) THEN out = hIn /\ ~hOut.changed
              ELSE IF names # {}
              THEN LET colon == SkipWs(hIn, Min(names) + Len(hArg))
                       rest == From(hIn, FindTok(hIn, colon, ";"))
                   IN /\ Upto(out, colon) = Upto(hIn, colon)
                      /\ Len(out) >= colon + Len(rest)
                      /\ From(out, Len(out) - Len(rest) + 1) = rest
              ELSE LET before == SplitLines(hIn)
                       after == SplitLines(out)
                       n == Len(before)
                   IN /\ Len(after) = n + 1
                      /\ Upto(after, n - 1) = Upto(before, n - 1)
                      /\ after[n + 1] = before[n]
                      /\ PropNameStarts(after[n], hArg) # {}

----------------------------------------------------------------------------
(* The snippet step on one custom.css text (specification SpecCustomCss)   *)

\* the lines of the input texts
CustomLine(kind) ==
    CASE kind = "rule" -> <<"a", "sp", "{", "}">>
      [] kind = "marker" -> Marker \o <<"sp", "x", "sp", "*/">>
      [] kind = "indented" -> <<"sp", "sp">> \o Marker \o <<"sp", "x", "sp", "*/">>
      [] kind = "inline" -> <<"a", "sp", "{", "}", "sp">> \o Marker \o <<"sp", "x", "sp", "*/">>
      [] OTHER -> <<"/*", "sp", Sentinel, ":", "sp", "*/">>

CustomLineKinds == {"rule", "marker", "indented", "inline", "sentinel"}

\* what follows the last line of an input text
CustomEnds == {<<>>, <<"nl">>, <<"nl", "nl">>, <<"sp", "nl">>}

\* the most lines an input text holds
MaxLines == 2

CustomLineLists ==
    UNION {{ks \in [1..n -> CustomLineKinds] : \A i, j \in 1..n : i # j => ks[i] # ks[j]} :
           n \in 1..MaxLines}

\* the lines joined by the line break; the last line followed by end, with "nl"
\* written as the line break of the text
CustomDoc(ks, end, nl) ==
    Join([k \in 1..Len(ks) |-> CustomLine(ks[k])], nl)
        \o Concat([k \in 1..Len(end) |-> IF end[k] = "nl" THEN nl ELSE <<end[k]>>])

CustomInputs ==
    {CustomDoc(ks, end, nl) : ks \in CustomLineLists, end \in CustomEnds, nl \in {LF, CRLF}}

InitCustomCss ==
    /\ mainIdle
    /\ hPc = "input"
    /\ hArg = <<>>
    /\ hIn \in CustomInputs
    /\ hOut = <<>>

\* the snippet step applied to the text of custom.css
PatchCustomOnce ==
    /\ hPc = "input"
    /\ hOut' = PatchCustomText(hIn)
    /\ hPc' = "once"
    /\ UNCHANGED <<hIn, hArg>>
    /\ UNCHANGED mainVars

\* the snippet step applied to its own result (hArg keeps the first input)
PatchCustomAgain ==
    /\ hPc = "once"
    /\ hArg' = hIn
    /\ hIn' = hOut
    /\ hOut' = PatchCustomText(hOut)
    /\ hPc' = "twice"
    /\ UNCHANGED mainVars

NextCustomCss == PatchCustomOnce \/ PatchCustomAgain

SpecCustomCss == InitCustomCss /\ [][NextCustomCss]_vars

\* the indices at which the marker begins
MarkerStarts(text) == {i \in 1..Len(text) : HasAt(text, i, Marker)}

\* the start of the line that holds index i
LineStartOf(text, i) == Max({j \in LineStarts(text) : j <= i})

\* text is the input with the snippet and one line break put in before index p
SnippetPutAt(text, input, p) ==
    LET n == Len(CUSTOM_CSS_SNIPPET)
        nl == DetectNewline(input)
    IN /\ Upto(text, p - 1) = Upto(input, p - 1)
       /\ Slice(text, p, p + n - 1) = CUSTOM_CSS_SNIPPET
       /\ HasAt(text, p + n, nl)
       /\ From(text, p + n + Len(nl)) = From(input, p)

\* text is the input without its trailing whitespace, then one empty line, then the
\* snippet and a line break
SnippetAppended(text, input) ==
    LET n == Len(CUSTOM_CSS_SNIPPET)
        nl == DetectNewline(input)
        kept == Len(text) - n - 3 * Len(nl)
    IN /\ kept >= 0
       /\ From(text, kept + 1) = nl \o nl \o CUSTOM_CSS_SNIPPET \o nl
       /\ Upto(text, kept) = Upto(input, kept)
       /\ kept > 0 => ~IsWs(input[kept])
       /\ \A k \in (kept + 1)..Len(input) : IsWs(input[k])

\* C10 as stated: with the marker, the snippet goes immediately before the line that
\* holds the marker; the other three parts as in the amended claim.
C10_SnippetBeforeMarkerLine ==
    /\ (hPc = "once" /\ ~Contains(hIn, Sentinel) /\ MarkerStarts(hIn) # {})
           => SnippetPutAt(hOut, hIn, LineStartOf(hIn, Min(MarkerStarts(hIn))))
    /\ (hPc = "once" /\ Contains(hIn, Sentinel)) => hOut = hIn
    /\ (hPc = "once" /\ ~Contains(hIn, Sentinel) /\ MarkerStarts(hIn) = {})
           => SnippetAppended(hOut, hIn)
    /\ hPc = "twice" => hOut = hIn

\* C10, amended: a text with the sentinel is left as it is; otherwise, with the
\* marker, the snippet and a line break are put immediately before the first marker
\* itself (inside its line when the marker does not start the line), all other bytes
\* kept; otherwise the result is the text without its trailing whitespace, two line
\* breaks (one blank line), the snippet and a line break; the result holds the
\* sentinel and a second application changes nothing.
C10_SnippetBeforeMarker ==
    /\ hPc = "once"
           => /\ Contains(hOut, Sentinel)
              /\ IF Contains(hIn, Sentinel) THEN hOut = hIn
                 ELSE IF MarkerStarts(hIn) # {}
                      THEN SnippetPutAt(hOut, hIn, Min(MarkerStarts(hIn)))
                      ELSE SnippetAppended(hOut, hIn)
    /\ hPc = "twice" => hOut = hIn

\* the snippet was put inside the line of an indented marker, and applied again
C10_Witness ==
    /\ hPc = "twice"
    /\ hArg # hIn
    /\ MarkerStarts(hArg) # {}
    /\ ~LineStart(hArg, Min(MarkerStarts(hArg)))
    /\ ~Contains(hArg, Sentinel)
    /\ Contains(hIn, Sentinel)

====
